---- MODULE Spec2Model ----
(***************************************************************************)
(* Model of src/server.py: the /v1/embeddings handler get_embeddings, which *)
(* normalises the request's input, forwards it to the upstream provider in  *)
(* batches of MAX_BATCH_SIZE texts and reassembles the returned vectors.    *)
(*                                                                          *)
(* Strings are sequences of one-character strings; a formatted message is   *)
(* the concatenation of its literal pieces and of the characters of the     *)
(* values interpolated into it.  A JSON value is a record                   *)
(*   [type, text, items]                                                    *)
(* where text holds the characters of a scalar and items the elements of a  *)
(* container.  The handler runs once per request; Flask serves requests on  *)
(* separate threads, so two invocations may interleave at the blocking      *)
(* upstream call.                                                           *)
(***************************************************************************)
EXTENDS Integers, Sequences, FiniteSets, TLC

\* ------------------------------------------------------------------ bounds
\* longest array input of a request handled on its own
MaxLen == 25
\* length of the array input used when two requests are handled concurrently
ConcLen == 11

\* --------------------------------------------------------------- constants
MAX_BATCH_SIZE == 10

\* the handler invocations (one per request in flight)
Reqs == {1, 2}

\* ------------------------------------------------------------- JSON values
Str(s) == [type |-> "string", text |-> s, items |-> <<>>]
\* a JSON number: text holds the characters Python renders the decoded
\* number with
Num(digits) == [type |-> "number", text |-> digits, items |-> <<>>]
Null == [type |-> "null", text |-> <<>>, items |-> <<>>]
Arr(xs) == [type |-> "array", text |-> <<>>, items |-> xs]
\* a JSON object: items holds its members in order, each key followed by
\* its value
Obj(kvs) == [type |-> "object", text |-> <<>>, items |-> kvs]
\* a JSON boolean: text holds the literal, true or false
Bool(lit) == [type |-> "boolean", text |-> lit, items |-> <<>>]

\* the numbers request.json decodes from NaN, Infinity, -Infinity or from a
\* literal beyond the range of a float such as 1e999, as Python renders them
NonFiniteTexts == {<<"n", "a", "n">>, <<"i", "n", "f">>, <<"-", "i", "n", "f">>}

NonFinite(v) == v.type = "number" /\ v.text \in NonFiniteTexts

\* whether requests.post can encode the value as the JSON body of the call:
\* it encodes with allow_nan=False, which refuses a non-finite number at any
\* depth
RECURSIVE Encodable(_)
Encodable(v) ==
  /\ ~NonFinite(v)
  /\ \A j \in 1..Len(v.items) : Encodable(v.items[j])

\* isinstance(input_data, list)
IsList(v) == v.type = "array"

Range(f) == {f[x] : x \in DOMAIN f}

\* the characters repr() of a string writes as an escape: the backslash and
\* the characters c that are not printable (c.isprintable() is false), which
\* include every separator other than the blank.  The texts of the model are
\* written with the printable ASCII characters, the printable U+00E9 and the
\* characters of this set
ReprEscaped ==
  {"U+0000", "U+0008", "U+001B", "U+007F", "U+00AD", "U+E000", "U+FEFF",
   "\t", "\n", "\r", "\f", "\\", "U+000B", "U+001C", "U+001D", "U+001E",
   "U+001F", "U+0085", "U+00A0", "U+1680", "U+2000", "U+2001", "U+2002",
   "U+2003", "U+2004", "U+2005", "U+2006", "U+2007", "U+2008", "U+2009",
   "U+200A", "U+200B", "U+2028", "U+2029", "U+202F", "U+205F", "U+3000"}

\* the escape repr() writes for such a character
ReprEscape(c) ==
  CASE c = "\t" -> <<"\\", "t">>
    [] c = "\n" -> <<"\\", "n">>
    [] c = "\r" -> <<"\\", "r">>
    [] c = "\f" -> <<"\\", "x", "0", "c">>
    [] c = "\\" -> <<"\\", "\\">>
    [] c = "U+000B" -> <<"\\", "x", "0", "b">>
    [] c = "U+001C" -> <<"\\", "x", "1", "c">>
    [] c = "U+001D" -> <<"\\", "x", "1", "d">>
    [] c = "U+001E" -> <<"\\", "x", "1", "e">>
    [] c = "U+001F" -> <<"\\", "x", "1", "f">>
    [] c = "U+0085" -> <<"\\", "x", "8", "5">>
    [] c = "U+00A0" -> <<"\\", "x", "a", "0">>
    [] c = "U+1680" -> <<"\\", "u", "1", "6", "8", "0">>
    [] c = "U+2000" -> <<"\\", "u", "2", "0", "0", "0">>
    [] c = "U+2001" -> <<"\\", "u", "2", "0", "0", "1">>
    [] c = "U+2002" -> <<"\\", "u", "2", "0", "0", "2">>
    [] c = "U+2003" -> <<"\\", "u", "2", "0", "0", "3">>
    [] c = "U+2004" -> <<"\\", "u", "2", "0", "0", "4">>
    [] c = "U+2005" -> <<"\\", "u", "2", "0", "0", "5">>
    [] c = "U+2006" -> <<"\\", "u", "2", "0", "0", "6">>
    [] c = "U+2007" -> <<"\\", "u", "2", "0", "0", "7">>
    [] c = "U+2008" -> <<"\\", "u", "2", "0", "0", "8">>
    [] c = "U+2009" -> <<"\\", "u", "2", "0", "0", "9">>
    [] c = "U+200A" -> <<"\\", "u", "2", "0", "0", "a">>
    [] c = "U+200B" -> <<"\\", "u", "2", "0", "0", "b">>
    [] c = "U+2028" -> <<"\\", "u", "2", "0", "2", "8">>
    [] c = "U+2029" -> <<"\\", "u", "2", "0", "2", "9">>
    [] c = "U+202F" -> <<"\\", "u", "2", "0", "2", "f">>
    [] c = "U+205F" -> <<"\\", "u", "2", "0", "5", "f">>
    [] c = "U+3000" -> <<"\\", "u", "3", "0", "0", "0">>
    [] c = "U+0000" -> <<"\\", "x", "0", "0">>
    [] c = "U+0008" -> <<"\\", "x", "0", "8">>
    [] c = "U+001B" -> <<"\\", "x", "1", "b">>
    [] c = "U+007F" -> <<"\\", "x", "7", "f">>
    [] c = "U+00AD" -> <<"\\", "x", "a", "d">>
    [] c = "U+E000" -> <<"\\", "u", "e", "0", "0", "0">>
    [] c = "U+FEFF" -> <<"\\", "u", "f", "e", "f", "f">>

\* repr(s) of a string: in single quotes, or in double quotes when s holds a
\* single quote and no double quote; a quote equal to the enclosing one is
\* escaped.  ReprChars writes the characters of s from position p on after
\* out
RECURSIVE ReprChars(_, _, _, _)
ReprChars(s, q, p, out) ==
  IF p > Len(s) THEN out
  ELSE ReprChars(s, q, p + 1,
                 out \o (IF s[p] \in ReprEscaped THEN ReprEscape(s[p])
                         ELSE IF s[p] = q THEN <<"\\", q>>
                         ELSE <<s[p]>>))

ReprString(s) ==
  LET q == IF "'" \in Range(s) /\ "\"" \notin Range(s) THEN "\"" ELSE "'"
  IN  ReprChars(s, q, 1, <<q>>) \o <<q>>

\* repr(v) of a decoded JSON value: a list is its elements' repr joined by
\* ", " in brackets, a dict its members as key: value in braces
RECURSIVE PyRepr(_)
RECURSIVE ReprItems(_)
RECURSIVE ReprMembers(_)
ReprItems(xs) ==
  IF xs = <<>> THEN <<>>
  ELSE PyRepr(Head(xs))
         \o (IF Tail(xs) = <<>> THEN <<>> ELSE <<",", " ">> \o ReprItems(Tail(xs)))

ReprMembers(kvs) ==
  IF kvs = <<>> THEN <<>>
  ELSE PyRepr(kvs[1]) \o <<":", " ">> \o PyRepr(kvs[2])
         \o (IF Len(kvs) = 2 THEN <<>>
             ELSE <<",", " ">> \o ReprMembers(SubSeq(kvs, 3, Len(kvs))))

PyRepr(v) ==
  CASE v.type = "string" -> ReprString(v.text)
    [] v.type = "number" -> v.text
    [] v.type = "null" -> <<"N", "o", "n", "e">>
    [] v.type = "boolean" ->
         (IF v.text = <<"t", "r", "u", "e">> THEN <<"T", "r", "u", "e">>
          ELSE <<"F", "a", "l", "s", "e">>)
    [] v.type = "array" -> <<"[">> \o ReprItems(v.items) \o <<"]">>
    [] v.type = "object" -> <<"{">> \o ReprMembers(v.items) \o <<"}">>

\* str(t): a string is itself, any other value its repr
PyStr(v) == IF v.type = "string" THEN v.text ELSE PyRepr(v)

\* the characters str.split() treats as separators: every character c with
\* c.isspace().  A character a string literal cannot hold is written as the
\* name of its code point
Whitespace ==
  {"\t", "\n", "U+000B", "\f", "\r", "U+001C", "U+001D", "U+001E", "U+001F",
   " ", "U+0085", "U+00A0", "U+1680", "U+2000", "U+2001", "U+2002", "U+2003",
   "U+2004", "U+2005", "U+2006", "U+2007", "U+2008", "U+2009", "U+200A",
   "U+2028", "U+2029", "U+202F", "U+205F", "U+3000"}

\* s.split(" "): splits at every single blank and keeps the empty pieces
RECURSIVE SplitOnBlank(_, _, _)
SplitOnBlank(s, cur, acc) ==
  IF s = <<>> THEN Append(acc, cur)
  ELSE IF Head(s) = " " THEN SplitOnBlank(Tail(s), <<>>, Append(acc, cur))
  ELSE SplitOnBlank(Tail(s), Append(cur, Head(s)), acc)

\* s.split(): scan s, closing the current word at each whitespace character
\* and dropping empty words
RECURSIVE SplitScan(_, _, _)
SplitScan(s, cur, acc) ==
  IF s = <<>> THEN (IF cur = <<>> THEN acc ELSE Append(acc, cur))
  ELSE IF Head(s) \in Whitespace
       THEN SplitScan(Tail(s), <<>>, IF cur = <<>> THEN acc ELSE Append(acc, cur))
       ELSE SplitScan(Tail(s), Append(cur, Head(s)), acc)

SplitSingleBlank(s) == SplitOnBlank(s, <<>>, <<>>)

Split(s) == SplitScan(s, <<>>, <<>>)

\* sum(len(str(t).split()) for t in texts)
RECURSIVE UsageTokens(_)
UsageTokens(ts) ==
  IF ts = <<>> THEN 0 ELSE Len(Split(PyStr(Head(ts)))) + UsageTokens(Tail(ts))

\* the decimal digits of a natural number, as f"{i}" renders it
Digit(d) == <<"0", "1", "2", "3", "4", "5", "6", "7", "8", "9">>[d + 1]

RECURSIVE DecimalStr(_)
DecimalStr(n) ==
  IF n < 10 THEN <<Digit(n)>> ELSE Append(DecimalStr(n \div 10), Digit(n % 10))

\* ---------------------------------------------------------------- requests
TextPool ==
  << <<"a", " ", "b">>,
     <<"c">>,
     <<"h", "e", "l", "l", "o", " ", "w", "o", "r", "l", "d">>,
     <<>>,
     <<" ", "x", "\t", " ", "y", "\n", "z", " ">> >>

\* an array of n strings taken from the pool in rotation, starting at off
TextArray(n, off) ==
  Arr([j \in 1..n |-> Str(TextPool[((j - 1 + off) % Len(TextPool)) + 1])])

\* texts separated by characters other than the ASCII blanks: a vertical
\* tab; a no-break space, an em space and a zero-width space (which does not
\* separate); the separators U+001C and U+001F, a next-line and an
\* ideographic space
UnicodeTexts ==
  << <<"a", "U+000B", "b">>,
     <<"x", "U+00A0", "y", "U+2003", "z", "U+200B", "w">>,
     <<"U+001C", "p", "U+0085", "U+001F", "q", "U+3000">> >>

\* input items that are not strings: [1, 2], [], {"a b": 1},
\* ["a\tb c", false, null, "it's"] and {"k": ["x y", 2]}
ContainerTexts ==
  << Arr(<<Num(<<"1">>), Num(<<"2">>)>>),
     Arr(<<>>),
     Obj(<<Str(<<"a", " ", "b">>), Num(<<"1">>)>>),
     Arr(<<Str(<<"a", "\t", "b", " ", "c">>), Bool(<<"f", "a", "l", "s", "e">>),
           Null, Str(<<"i", "t", "'", "s">>)>>),
     Obj(<<Str(<<"k">>), Arr(<<Str(<<"x", " ", "y">>), Num(<<"2">>)>>)>>) >>

\* texts holding characters that are not printable and do not separate
\* (U+0000, U+00AD, U+001B, U+FEFF, U+007F, U+E000, U+0008) and the
\* printable U+00E9
ControlTexts ==
  << <<"a", "U+0000", "b", " ", "c">>,
     <<"x", "U+00AD", "y", "U+001B">>,
     <<"c", "a", "f", "U+00E9", " ", "U+FEFF", "z", "U+007F", "U+E000", "U+0008">> >>

Inf == Num(<<"i", "n", "f">>)

NaN == Num(<<"n", "a", "n">>)

\* an array of n strings whose item at position at is replaced by Infinity
TextArrayWithInf(n, at) ==
  Arr([j \in 1..n |-> IF j = at THEN Inf ELSE TextArray(n, 0).items[j]])

ObjectBody(hasInput, v) == [kind |-> "object", hasInput |-> hasInput, input |-> v]

\* a body that is valid JSON but not an object (request.json is a list, a
\* number, null, ...)
NonObjectBody == [kind |-> "nonobject", hasInput |-> FALSE, input |-> Null]

\* a body request.json cannot decode
InvalidBody == [kind |-> "invalid", hasInput |-> FALSE, input |-> Null]

MissingInputBody == ObjectBody(FALSE, Null)

\* bodies of a request handled while no other request is in flight
Bodies ==
  {ObjectBody(TRUE, TextArray(n, off)) : n \in 0..MaxLen, off \in {0, 3}}
    \cup {ObjectBody(TRUE, Str(TextPool[3])),
          ObjectBody(TRUE, Str(<<>>)),
          ObjectBody(TRUE, Num(<<"4", "2">>)),
          ObjectBody(TRUE, Null),
          ObjectBody(TRUE, Arr(<<Num(<<"7">>), Null, Str(TextPool[1])>>)),
          ObjectBody(TRUE, Arr([j \in 1..Len(UnicodeTexts) |-> Str(UnicodeTexts[j])])),
          ObjectBody(TRUE, Str(UnicodeTexts[1])),
          ObjectBody(TRUE, Arr(ContainerTexts)),
          ObjectBody(TRUE, ContainerTexts[3]),
          ObjectBody(TRUE, Bool(<<"t", "r", "u", "e">>)),
          ObjectBody(TRUE, Arr([j \in 1..Len(ControlTexts) |-> Str(ControlTexts[j])])),
          ObjectBody(TRUE, Arr(<<Arr(<<Str(ControlTexts[2])>>), Str(ControlTexts[2])>>)),
          ObjectBody(TRUE, NaN),
          ObjectBody(TRUE, Arr(<<Inf>>)),
          ObjectBody(TRUE, Arr(<<Str(TextPool[2]), Arr(<<Obj(<<Str(<<"k">>), NaN>>)>>)>>)),
          ObjectBody(TRUE, TextArrayWithInf(11, 11)),
          ObjectBody(TRUE, TextArrayWithInf(11, 10)),
          ObjectBody(TRUE, TextArrayWithInf(25, 21)),
          MissingInputBody, NonObjectBody, InvalidBody}

\* bodies of two requests handled concurrently
ConcBodies ==
  {ObjectBody(TRUE, TextArray(ConcLen, 0)),
   ObjectBody(TRUE, Str(TextPool[3])),
   InvalidBody}

\* ---------------------------------------------------------------- upstream
\* a reply of the upstream provider to one requests.post: either an HTTP
\* response (status, raw body text, and the value response.json() yields when
\* the body parses) or a transport failure, in which requests.post raises
HttpReply(status, text, parses, json) ==
  [kind |-> "http", status |-> status, text |-> text, parses |-> parses,
   json |-> json]

TransportFailure ==
  [kind |-> "transport", status |-> 0, text |-> <<>>, parses |-> FALSE,
   json |-> Null]

\* the j-th vector of a reply; the salt distinguishes replies
Vec(salt, j) == Arr(<<Num(<<salt>>), Num(DecimalStr(j))>>)

Salts == {"1", "2"}

NonOkStatuses == {201, 503}

ErrorTexts == {<<>>, <<"b", "u", "s", "y">>}

\* the replies the provider may give to a payload of m texts: m vectors in
\* order, one vector too few or too many, a JSON body that is not an array
\* of vectors, a body that is not JSON, a status other than 200 (with an
\* error text, or with a body that would parse as m vectors), or no response
\* at all
UpstreamReplies(payload) ==
  LET m == Len(payload)
      body == <<"j", "s", "o", "n">>
  IN  {HttpReply(200, body, TRUE, Arr([j \in 1..m |-> Vec(s, j)])) : s \in Salts}
        \cup {HttpReply(200, body, TRUE, Arr([j \in 1..(m + 1) |-> Vec("3", j)]))}
        \cup {HttpReply(200, body, TRUE, Arr([j \in 1..(m - 1) |-> Vec("4", j)]))}
        \cup {HttpReply(200, body, TRUE, Obj(<<Str(<<"e", "r", "r">>), Str(<<"b", "u", "s", "y">>)>>)),
              HttpReply(200, body, TRUE, Num(<<"5">>)),
              HttpReply(200, <<"<">>, FALSE, Null)}
        \cup {HttpReply(st, t, FALSE, Null) : st \in NonOkStatuses, t \in ErrorTexts}
        \cup {HttpReply(201, body, TRUE, Arr([j \in 1..m |-> Vec("6", j)]))}
        \cup {TransportFailure}

\* -------------------------------------------------------------- exceptions
Exc(type, msg) == [type |-> type, msg |-> msg]

\* request.json on a body that is not JSON
BadRequest == Exc("BadRequest", <<"400 Bad Request">>)

\* data.get on a value that is not a dict
AttributeError == Exc("AttributeError", <<"object has no attribute 'get'">>)

\* the memory address of the connection object of one call, as its repr
\* shows it; the interpreter places the object where it will
Addresses == {"0x7f3a5c1d2e50", "0x7f3a5c1f8b90"}

\* requests.post when the connection fails: str(e) carries the repr of the
\* connection object of the call, with its address
ConnectionError(addr) ==
  Exc("ConnectionError",
      <<"HTTPSConnectionPool(host='bge-multilingual-gemma2.endpoints.kepler.ai.cloud.ovh.net', port=443): Max retries exceeded with url: /api/batch_text2vec (Caused by NewConnectionError('<urllib3.connection.HTTPSConnection object at ",
        addr,
        ">: Failed to establish a new connection: [Errno 111] Connection refused'))">>)

\* requests.post on a batch it cannot encode, raised before anything is sent
InvalidJSONError ==
  Exc("InvalidJSONError", <<"Out of range float values are not JSON compliant">>)

\* response.json() on a body that is not JSON
JSONDecodeError == Exc("JSONDecodeError", <<"Expecting value">>)

\* list.extend on a value that is not iterable
TypeError == Exc("TypeError", <<"object is not iterable">>)

\* an except clause naming only the errors of parsing
CaughtValueErrorOnly(e) == e.type \in {"BadRequest", "JSONDecodeError"}

\* except Exception: every exception class raised in the handler derives
\* from Exception
Caught(e) == TRUE

\* str(e)
ExcStr(e) == e.msg

\* --------------------------------------------------------------- responses
\* a JSON object body: keys lists the keys present; a field whose key is
\* absent holds a filler
ErrorBody(msg) ==
  [keys |-> {"error"}, error |-> msg, data |-> <<>>, model |-> <<>>,
   object |-> <<>>, usage |-> [prompt_tokens |-> 0, total_tokens |-> 0]]

SuccessBody(data, prompt, total) ==
  [keys |-> {"data", "model", "object", "usage"}, error |-> <<>>,
   data |-> data, model |-> <<"ovh-embeddings">>, object |-> <<"list">>,
   usage |-> [prompt_tokens |-> prompt, total_tokens |-> total]]

HttpResponse(status, body) == [status |-> status, body |-> body]

\* the message of the error response, with the number of the batch in place
\* of its starting index
BatchErrorMessageByNumber(i, status, text) ==
  <<"Error from OVH API (batch starting at index ">>
    \o DecimalStr(i \div MAX_BATCH_SIZE) \o <<"): ">> \o DecimalStr(status)
    \o <<", response: ">> \o text

\* f"Error from OVH API (batch starting at index {i}): {status}, response: {text}"
BatchErrorMessage(i, status, text) ==
  <<"Error from OVH API (batch starting at index ">>
    \o DecimalStr(i) \o <<"): ">> \o DecimalStr(status)
    \o <<", response: ">> \o text

\* ----------------------------------------------------------- handler logic
\* a default of the empty list for a missing input key
InputOfDefaultEmptyList(body) ==
  IF body.hasInput THEN body.input ELSE Arr(<<>>)

\* data.get("input", "")
InputOf(body) ==
  IF body.hasInput THEN body.input ELSE Str(<<>>)

\* texts = input_data if it is a list, [input_data] otherwise
Normalize(v) == IF IsList(v) THEN v.items ELSE <<v>>

\* a loop guard that admits i = n
LoopContinuesInclusive(i, n) == i <= n

\* range(0, len(texts), MAX_BATCH_SIZE) yields i while i < len(texts)
LoopContinues(i, n) == i < n

Min(a, b) == IF a < b THEN a ELSE b

\* a slice that skips the first text of the batch
BatchSliceSkipFirst(ts, i) ==
  SubSeq(ts, i + 2, Min(i + MAX_BATCH_SIZE, Len(ts)))

\* texts[i:i + MAX_BATCH_SIZE], i counting from 0
BatchSlice(ts, i) ==
  SubSeq(ts, i + 1, Min(i + MAX_BATCH_SIZE, Len(ts)))

\* a status test that accepts every status
StatusOkAny(status) == TRUE

\* response.status_code == 200
StatusOk(status) == status = 200

\* whether list.extend can iterate the value
Iterable(v) == v.type \in {"array", "object", "string"}

\* the elements list.extend takes from an iterable: the items of an array,
\* the keys of an object, the characters of a string
Elements(v) ==
  IF v.type = "string" THEN [j \in 1..Len(v.text) |-> Str(<<v.text[j]>>)]
  ELSE IF v.type = "object"
  THEN [j \in 1..(Len(v.items) \div 2) |-> v.items[2 * j - 1]]
  ELSE v.items

\* extending at the front
ExtendFront(acc, xs) == xs \o acc

\* all_embeddings.extend(xs)
Extend(acc, xs) == acc \o xs

\* the enumerate loop: one result per accumulated element, index from 0
EmbeddingsResults(acc) ==
  [j \in 1..Len(acc) |->
     [embedding |-> acc[j], index |-> j - 1, object |-> <<"embedding">>]]

\* an accumulator shared by all invocations
AccSlotShared(r) == 1

\* all_embeddings is a local of the invocation
AccSlot(r) == r

\* ------------------------------------------------------------------- state
VARIABLES
  pc,             \* position of each invocation: "idle" (no request),
                  \* "parse", "loop", "wait" (blocked in requests.post),
                  \* "recv", "done" (response returned), "crashed" (an
                  \* exception left the handler)
  body,           \* the request body of each invocation
  texts,          \* the local texts
  i,              \* the loop variable of the batch loop
  all_embeddings, \* the accumulator, one per slot
  calls,          \* the upstream calls each invocation has issued, in order
  replies,        \* the upstream replies each invocation has received
  responses       \* the responses each invocation has returned

vars == <<pc, body, texts, i, all_embeddings, calls, replies, responses>>

Last(s) == s[Len(s)]

\* return jsonify(body), status
Return(r, status, b) ==
  /\ responses' = [responses EXCEPT ![r] = Append(@, HttpResponse(status, b))]
  /\ pc' = [pc EXCEPT ![r] = "done"]

\* an exception raised inside the try block: the except clause turns it into
\* the error response; one it does not catch leaves the handler
Raise(r, e) ==
  IF Caught(e)
  THEN Return(r, 500, ErrorBody(ExcStr(e)))
  ELSE /\ pc' = [pc EXCEPT ![r] = "crashed"]
       /\ UNCHANGED responses

InitState(bs) ==
  /\ body = bs
  /\ pc = [r \in Reqs |-> IF bs[r].kind = "none" THEN "idle" ELSE "parse"]
  /\ texts = [r \in Reqs |-> <<>>]
  /\ i = [r \in Reqs |-> 0]
  /\ all_embeddings = [r \in Reqs |-> <<>>]
  /\ calls = [r \in Reqs |-> <<>>]
  /\ replies = [r \in Reqs |-> <<>>]
  /\ responses = [r \in Reqs |-> <<>>]

\* no request
NoBody == [kind |-> "none", hasInput |-> FALSE, input |-> Null]

\* one request handled on its own, or two requests handled concurrently
Init ==
  \/ \E b \in Bodies : InitState([r \in Reqs |-> IF r = 1 THEN b ELSE NoBody])
  \/ \E b1 \in ConcBodies, b2 \in ConcBodies :
       InitState([r \in Reqs |-> IF r = 1 THEN b1 ELSE b2])

\* lines 17-32: decode the body, read and normalise input, start with an
\* empty accumulator
Parse(r) ==
  /\ pc[r] = "parse"
  /\ IF body[r].kind = "invalid"
     THEN /\ Raise(r, BadRequest)
          /\ UNCHANGED <<texts, i, all_embeddings>>
     ELSE IF body[r].kind # "object"
     THEN /\ Raise(r, AttributeError)
          /\ UNCHANGED <<texts, i, all_embeddings>>
     ELSE /\ texts' = [texts EXCEPT ![r] = Normalize(InputOf(body[r]))]
          /\ all_embeddings' = [all_embeddings EXCEPT ![AccSlot(r)] = <<>>]
          /\ i' = [i EXCEPT ![r] = 0]
          /\ pc' = [pc EXCEPT ![r] = "loop"]
          /\ UNCHANGED responses
  /\ UNCHANGED <<body, calls, replies>>

\* lines 33-42: the loop yields the next i; slice the batch and post it.
\* requests.post encodes the batch first and raises when it cannot, in which
\* case nothing is sent
SendBatch(r) ==
  /\ pc[r] = "loop"
  /\ LoopContinues(i[r], Len(texts[r]))
  /\ LET batch == BatchSlice(texts[r], i[r]) IN
       IF Encodable(Arr(batch))
       THEN /\ calls' = [calls EXCEPT ![r] =
                           Append(@, [start |-> i[r], payload |-> batch])]
            /\ pc' = [pc EXCEPT ![r] = "wait"]
            /\ UNCHANGED responses
       ELSE /\ Raise(r, InvalidJSONError)
            /\ UNCHANGED calls
  /\ UNCHANGED <<body, texts, i, all_embeddings, replies>>

\* the provider answers the outstanding call, or the transport fails
UpstreamReply(r) ==
  /\ pc[r] = "wait"
  /\ \E rep \in UpstreamReplies(Last(calls[r]).payload) :
       replies' = [replies EXCEPT ![r] = Append(@, rep)]
  /\ pc' = [pc EXCEPT ![r] = "recv"]
  /\ UNCHANGED <<body, texts, i, all_embeddings, calls, responses>>

\* lines 38-50: requests.post returns or raises; on status 200 extend the
\* accumulator with response.json() and go on, otherwise return the batch
\* error
RecvBatch(r) ==
  /\ pc[r] = "recv"
  /\ LET response == Last(replies[r]) IN
       IF response.kind = "transport"
       THEN /\ \E addr \in Addresses : Raise(r, ConnectionError(addr))
            /\ UNCHANGED <<i, all_embeddings>>
       ELSE IF StatusOk(response.status)
       THEN IF ~response.parses
            THEN /\ Raise(r, JSONDecodeError)
                 /\ UNCHANGED <<i, all_embeddings>>
            ELSE IF ~Iterable(response.json)
            THEN /\ Raise(r, TypeError)
                 /\ UNCHANGED <<i, all_embeddings>>
            ELSE /\ all_embeddings' =
                      [all_embeddings EXCEPT ![AccSlot(r)] =
                         Extend(@, Elements(response.json))]
                 /\ i' = [i EXCEPT ![r] = @ + MAX_BATCH_SIZE]
                 /\ pc' = [pc EXCEPT ![r] = "loop"]
                 /\ UNCHANGED responses
       ELSE /\ Return(r, 500,
                      ErrorBody(BatchErrorMessage(i[r], response.status, response.text)))
            /\ UNCHANGED <<i, all_embeddings>>
  /\ UNCHANGED <<body, texts, calls, replies>>

\* lines 52-69: the loop is exhausted; build the results and the usage and
\* return the success response
Reassemble(r) ==
  /\ pc[r] = "loop"
  /\ ~LoopContinues(i[r], Len(texts[r]))
  /\ Return(r, 200,
            SuccessBody(EmbeddingsResults(all_embeddings[AccSlot(r)]),
                        UsageTokens(texts[r]), UsageTokens(texts[r])))
  /\ UNCHANGED <<body, texts, i, all_embeddings, calls, replies>>

Next ==
  \E r \in Reqs :
    \/ Parse(r)
    \/ SendBatch(r)
    \/ UpstreamReply(r)
    \/ RecvBatch(r)
    \/ Reassemble(r)

Spec == Init /\ [][Next]_vars

\* every invocation keeps running, and every upstream call completes
LiveSpec ==
  /\ Spec
  /\ \A r \in Reqs :
       /\ WF_vars(Parse(r))
       /\ WF_vars(SendBatch(r))
       /\ WF_vars(UpstreamReply(r))
       /\ WF_vars(RecvBatch(r))
       /\ WF_vars(Reassemble(r))

\* ------------------------------------------------------ properties: helpers
Done(r) == pc[r] = "done"

\* the response of a finished invocation
Resp(r) == responses[r][1]

\* the request body decoded to an object, so that texts is the normalised
\* input sequence
Normalized(r) == body[r].kind = "object" /\ pc[r] \notin {"idle", "parse"}

\* the reply is status 200 carrying exactly one vector per submitted text
WellFormed(rep, payload) ==
  /\ rep.kind = "http"
  /\ rep.status = 200
  /\ rep.parses
  /\ rep.json.type = "array"
  /\ Len(rep.json.items) = Len(payload)

AllWellFormed(r) ==
  /\ Len(replies[r]) = Len(calls[r])
  /\ \A k \in 1..Len(calls[r]) : WellFormed(replies[r][k], calls[r][k].payload)

\* every call issued was answered with status 200 and a body the handler
\* could add to the accumulator
AllSucceeded(r) ==
  /\ Len(replies[r]) = Len(calls[r])
  /\ \A k \in 1..Len(replies[r]) :
       /\ replies[r][k].kind = "http"
       /\ replies[r][k].status = 200
       /\ replies[r][k].parses
       /\ Iterable(replies[r][k].json)

\* no text holds a non-finite number, so every batch can be encoded
AllEncodable(r) == \A j \in 1..Len(texts[r]) : Encodable(texts[r][j])

\* the reply is an HTTP response with a status other than 200
NonOkReply(rep) == rep.kind = "http" /\ rep.status # 200

\* the least c with c * d >= n
CeilDiv(n, d) == CHOOSE c \in 0..n : c * d >= n /\ (c = 0 \/ (c - 1) * d < n)

\* ------------------------------------------------------------------------
\* C1 as stated, for every normalised input sequence: when every upstream
\* call of a request returns status 200 with one vector per submitted text,
\* the request ends with the success response, data has one entry per input
\* text, entry t (from 0) has index t and carries the vector the upstream
\* returned for text t.
C1_AnyInput ==
  \A r \in Reqs :
    (Done(r) /\ Normalized(r) /\ AllWellFormed(r)) =>
      /\ Resp(r).status = 200
      /\ "data" \in Resp(r).body.keys
      /\ Len(Resp(r).body.data) = Len(texts[r])
      /\ \A t \in 0..(Len(texts[r]) - 1) :
           LET entry == Resp(r).body.data[t + 1]
               reply == replies[r][(t \div MAX_BATCH_SIZE) + 1]
           IN  /\ entry.index = t
               /\ entry.embedding = reply.json.items[(t % MAX_BATCH_SIZE) + 1]

\* ------------------------------------------------------------------------
\* C1: for an input sequence that holds no non-finite number (NaN,
\* Infinity), when every upstream call of a request returns status 200 with
\* one vector per submitted text, the request ends with the success
\* response, data has one entry per input text, entry t (from 0) has index t
\* and carries the vector the upstream returned for text t, i.e. vector
\* t mod 10 of the reply to batch t div 10.
C1_OrderPreserved ==
  \A r \in Reqs :
    (Done(r) /\ Normalized(r) /\ AllEncodable(r) /\ AllWellFormed(r)) =>
      /\ Resp(r).status = 200
      /\ "data" \in Resp(r).body.keys
      /\ Len(Resp(r).body.data) = Len(texts[r])
      /\ \A t \in 0..(Len(texts[r]) - 1) :
           LET entry == Resp(r).body.data[t + 1]
               reply == replies[r][(t \div MAX_BATCH_SIZE) + 1]
           IN  /\ entry.index = t
               /\ entry.embedding = reply.json.items[(t % MAX_BATCH_SIZE) + 1]

\* a request of 25 texts, three well-formed batches with different vectors,
\* answered
C1_Witness ==
  \E r \in Reqs :
    /\ Done(r) /\ Normalized(r) /\ AllWellFormed(r)
    /\ Len(texts[r]) = 25
    /\ Len(replies[r]) = 3
    /\ replies[r][1] # replies[r][2]
    /\ Len(Resp(r).body.data) = 25

\* ------------------------------------------------------------------------
\* C2: when batch k returns a status other than 200 after batches 0..k-1
\* returned 200, the request ends with status 500 and a body whose only key
\* is error; the message names the starting index 10*k, the upstream status
\* and the raw upstream body; no data and none of the accumulated vectors
\* are in the response.
C2_BatchFailure ==
  \A r \in Reqs :
    (/\ Done(r)
     /\ replies[r] # <<>>
     /\ NonOkReply(Last(replies[r]))
     /\ \A j \in 1..(Len(replies[r]) - 1) :
          replies[r][j].kind = "http" /\ replies[r][j].status = 200) =>
      LET k == Len(replies[r]) - 1
          rep == Last(replies[r])
      IN  /\ Len(responses[r]) = 1
          /\ Resp(r).status = 500
          /\ Resp(r).body.keys = {"error"}
          /\ Resp(r).body.data = <<>>
          /\ Resp(r).body.error =
               <<"Error from OVH API (batch starting at index ">>
                 \o DecimalStr(10 * k) \o <<"): ">> \o DecimalStr(rep.status)
                 \o <<", response: ">> \o rep.text

\* the second of three batches answers 503 after the first delivered its
\* vectors
C2_Witness ==
  \E r \in Reqs :
    /\ Done(r)
    /\ Len(texts[r]) = 25
    /\ Len(replies[r]) = 2
    /\ replies[r][1].status = 200
    /\ replies[r][2].status = 503
    /\ all_embeddings[r] # <<>>
    /\ Resp(r).status = 500

RECURSIVE SumPayloads(_)
SumPayloads(cs) ==
  IF cs = <<>> THEN 0 ELSE Len(Head(cs).payload) + SumPayloads(Tail(cs))

\* ------------------------------------------------------------------------
\* C3 as stated, for every normalised input sequence: a request of n texts
\* whose upstream calls all succeed issues exactly ceil(n/10) calls, call k
\* carrying the texts at indices [10k, min(10k+10, n)).
C3_AnyInput ==
  \A r \in Reqs :
    (Done(r) /\ Normalized(r) /\ AllSucceeded(r)) =>
      LET n == Len(texts[r])
          c == Len(calls[r])
      IN  /\ c = CeilDiv(n, 10)
          /\ SumPayloads(calls[r]) = n
          /\ \A k \in 0..(c - 1) :
               LET p == calls[r][k + 1].payload
                   hi == IF 10 * k + 10 < n THEN 10 * k + 10 ELSE n
               IN  /\ Len(p) = hi - 10 * k
                   /\ Len(p) \in 1..10
                   /\ (k < c - 1 => Len(p) = 10)
                   /\ \A j \in 1..Len(p) : p[j] = texts[r][10 * k + j]

\* ------------------------------------------------------------------------
\* C3: a request of n texts, none holding a non-finite number, whose
\* upstream calls all succeed issues exactly ceil(n/10) calls; call k carries
\* the texts at indices [10k, min(10k+10, n)) in order, so each payload has
\* 1..10 texts, only the last may have fewer than 10, and the sizes sum to n.
C3_Batching ==
  \A r \in Reqs :
    (Done(r) /\ Normalized(r) /\ AllEncodable(r) /\ AllSucceeded(r)) =>
      LET n == Len(texts[r])
          c == Len(calls[r])
      IN  /\ c = CeilDiv(n, 10)
          /\ SumPayloads(calls[r]) = n
          /\ \A k \in 0..(c - 1) :
               LET p == calls[r][k + 1].payload
                   hi == IF 10 * k + 10 < n THEN 10 * k + 10 ELSE n
               IN  /\ Len(p) = hi - 10 * k
                   /\ Len(p) \in 1..10
                   /\ (k < c - 1 => Len(p) = 10)
                   /\ \A j \in 1..Len(p) : p[j] = texts[r][10 * k + j]

\* 25 texts sent as batches of 10, 10 and 5
C3_Witness ==
  \E r \in Reqs :
    /\ Done(r) /\ Resp(r).status = 200
    /\ Len(texts[r]) = 25
    /\ Len(calls[r]) = 3
    /\ Len(calls[r][3].payload) = 5

WordStarts(s) ==
  Cardinality({p \in 1..Len(s) :
                 s[p] \notin Whitespace /\ (p = 1 \/ s[p - 1] \in Whitespace)})

RECURSIVE SumWordStarts(_)
SumWordStarts(ts) ==
  IF ts = <<>> THEN 0 ELSE WordStarts(PyStr(Head(ts))) + SumWordStarts(Tail(ts))

\* ------------------------------------------------------------------------
\* C4: in every success response prompt_tokens = total_tokens = the sum over
\* the items of the normalised input of the item's number of whitespace-
\* separated words (counted as the positions where a word starts), whatever
\* number of vectors the upstream returned; ["a b", "c"] gives 3, a text of
\* two letters around a vertical tab gives 2, the three texts of
\* UnicodeTexts give 2 + 3 + 2 = 7, the five items of ContainerTexts give
\* 2 + 1 + 3 + 5 + 4 = 15 (each counted in its Python rendering), the object
\* {"a b": 1} as the input gives 3 and true gives 1; the three texts of
\* ControlTexts give 2 + 1 + 2 = 5, and the second of them once inside a
\* list and once as itself gives 1 + 1 = 2.
C4_Usage ==
  \A r \in Reqs :
    (Done(r) /\ Resp(r).status = 200) =>
      /\ Resp(r).body.usage.prompt_tokens = Resp(r).body.usage.total_tokens
      /\ Resp(r).body.usage.prompt_tokens = SumWordStarts(texts[r])
      /\ (texts[r] = <<Str(<<"a", " ", "b">>), Str(<<"c">>)>>
            => Resp(r).body.usage.total_tokens = 3)
      /\ (texts[r] = <<Str(<<"a", "U+000B", "b">>)>>
            => Resp(r).body.usage.total_tokens = 2)
      /\ (texts[r] = [j \in 1..Len(UnicodeTexts) |-> Str(UnicodeTexts[j])]
            => Resp(r).body.usage.total_tokens = 7)
      /\ (texts[r] = ContainerTexts => Resp(r).body.usage.total_tokens = 15)
      /\ (texts[r] = <<ContainerTexts[3]>> => Resp(r).body.usage.total_tokens = 3)
      /\ (texts[r] = <<Bool(<<"t", "r", "u", "e">>)>>
            => Resp(r).body.usage.total_tokens = 1)
      /\ (texts[r] = [j \in 1..Len(ControlTexts) |-> Str(ControlTexts[j])]
            => Resp(r).body.usage.total_tokens = 5)
      /\ (texts[r] = <<Arr(<<Str(ControlTexts[2])>>), Str(ControlTexts[2])>>
            => Resp(r).body.usage.total_tokens = 2)

\* ["a b", "c"] answered with 3 tokens although the upstream returned a
\* number of vectors other than 2
C4_Witness ==
  \E r \in Reqs :
    /\ Done(r) /\ Resp(r).status = 200
    /\ texts[r] = <<Str(<<"a", " ", "b">>), Str(<<"c">>)>>
    /\ Len(Resp(r).body.data) # 2
    /\ Resp(r).body.usage.prompt_tokens = 3

EmptyArrayBody == ObjectBody(TRUE, Arr(<<>>))

\* ------------------------------------------------------------------------
\* C5: a request whose input is the empty array never issues an upstream
\* call and ends with the success response with empty data and both token
\* counts 0.
C5_EmptyInput ==
  \A r \in Reqs :
    body[r] = EmptyArrayBody =>
      /\ calls[r] = <<>>
      /\ pc[r] \in {"parse", "loop", "done"}
      /\ Done(r) =>
           /\ Resp(r).status = 200
           /\ Resp(r).body.data = <<>>
           /\ Resp(r).body.usage.prompt_tokens = 0
           /\ Resp(r).body.usage.total_tokens = 0

C5_Witness ==
  \E r \in Reqs :
    /\ body[r] = EmptyArrayBody
    /\ Done(r)
    /\ Resp(r).status = 200

\* ------------------------------------------------------------------------
\* C6 as stated, for any input value that is not an array: texts is the
\* one-element sequence holding it, which gives exactly one upstream call
\* with that one text and, when the upstream answers it with one vector, one
\* data entry with index 0.
C6_AnyInput ==
  \A r \in Reqs :
    Normalized(r) =>
      /\ (body[r].hasInput /\ body[r].input.type = "array")
           => texts[r] = body[r].input.items
      /\ (body[r].hasInput /\ body[r].input.type # "array")
           => texts[r] = <<body[r].input>>
      /\ ~body[r].hasInput => texts[r] = <<Str(<<>>)>>
      /\ (~body[r].hasInput \/ body[r].input.type # "array") =>
           /\ Len(calls[r]) <= 1
           /\ pc[r] \in {"wait", "recv", "done"} =>
                /\ Len(calls[r]) = 1
                /\ calls[r][1].payload = texts[r]
                /\ Len(calls[r][1].payload) = 1
           /\ (Done(r) /\ AllWellFormed(r)) =>
                /\ Resp(r).status = 200
                /\ Len(Resp(r).body.data) = 1
                /\ Resp(r).body.data[1].index = 0

\* ------------------------------------------------------------------------
\* C6: once the body is decoded, texts is the input array itself when input
\* is an array, the one-element sequence holding the input value when it is
\* any other value, and the one-element sequence holding the empty string
\* when the input key is missing; a one-element sequence whose value holds
\* no non-finite number gives one upstream call with that one text and,
\* when the upstream answers it with one vector, one data entry with index 0.
C6_Normalization ==
  \A r \in Reqs :
    Normalized(r) =>
      /\ (body[r].hasInput /\ body[r].input.type = "array")
           => texts[r] = body[r].input.items
      /\ (body[r].hasInput /\ body[r].input.type # "array")
           => texts[r] = <<body[r].input>>
      /\ ~body[r].hasInput => texts[r] = <<Str(<<>>)>>
      /\ ((~body[r].hasInput \/ body[r].input.type # "array") /\ AllEncodable(r)) =>
           /\ Len(calls[r]) <= 1
           /\ pc[r] \in {"wait", "recv", "done"} =>
                /\ Len(calls[r]) = 1
                /\ calls[r][1].payload = texts[r]
                /\ Len(calls[r][1].payload) = 1
           /\ (Done(r) /\ AllWellFormed(r)) =>
                /\ Resp(r).status = 200
                /\ Len(Resp(r).body.data) = 1
                /\ Resp(r).body.data[1].index = 0

\* a request without input key answered with one embedding, for the empty
\* string
C6_Witness ==
  \E r \in Reqs :
    /\ body[r] = MissingInputBody
    /\ Done(r)
    /\ calls[r][1].payload = <<Str(<<>>)>>
    /\ Resp(r).status = 200
    /\ Len(Resp(r).body.data) = 1

\* ------------------------------------------------------------------------
\* the response has one of the two shapes of the interface
ResponseShape(resp) ==
  \/ /\ resp.status = 200
     /\ resp.body.keys = {"data", "model", "object", "usage"}
     /\ resp.body.model = <<"ovh-embeddings">>
     /\ resp.body.object = <<"list">>
  \/ /\ resp.status = 500
     /\ resp.body.keys = {"error"}

C7_Answered ==
  \A r \in Reqs :
    /\ pc[r] # "crashed"
    /\ Len(responses[r]) = (IF Done(r) THEN 1 ELSE 0)
    /\ Done(r) => ResponseShape(Resp(r))

\* C7: whatever the body (an object, an object without input, JSON that is
\* not an object, not JSON) and whatever the upstream replies (200, another
\* status, a transport failure, a body that does not parse), provided every
\* upstream call completes the request ends, with exactly one response, of
\* status 200 with the success body or of status 500 with an error body;
\* no exception leaves the handler.
C7_AlwaysOneResponse ==
  /\ []C7_Answered
  /\ \A r \in Reqs : <>(pc[r] \in {"idle", "done"})

\* a second batch whose body does not parse, answered with the error
\* response, next to a request whose body is not JSON
C7_Witness ==
  \E r \in Reqs :
    /\ Done(r)
    /\ Len(replies[r]) = 2
    /\ Last(replies[r]).status = 200
    /\ ~Last(replies[r]).parses
    /\ Resp(r).status = 500
    /\ \E q \in Reqs : body[q] = InvalidBody /\ Done(q) /\ Resp(q).status = 500

\* ------------------------------------------------------------------------
\* the handler run on its own over a body and the replies to its batches,
\* its connection objects placed at addr
RECURSIVE AloneLoop(_, _, _, _, _)
AloneLoop(ts, reps, start, acc, addr) ==
  IF start >= Len(ts)
  THEN HttpResponse(200, SuccessBody(EmbeddingsResults(acc),
                                     UsageTokens(ts), UsageTokens(ts)))
  ELSE IF \E j \in (start + 1)..Len(ts) :
            j <= start + MAX_BATCH_SIZE /\ ~Encodable(ts[j])
  THEN HttpResponse(500, ErrorBody(ExcStr(InvalidJSONError)))
  ELSE IF reps = <<>>
  THEN HttpResponse(500, ErrorBody(<<"unanswered">>))
  ELSE LET rep == Head(reps) IN
    IF rep.kind = "transport"
    THEN HttpResponse(500, ErrorBody(ExcStr(ConnectionError(addr))))
    ELSE IF rep.status # 200
    THEN HttpResponse(500, ErrorBody(BatchErrorMessage(start, rep.status, rep.text)))
    ELSE IF ~rep.parses
    THEN HttpResponse(500, ErrorBody(ExcStr(JSONDecodeError)))
    ELSE IF ~Iterable(rep.json)
    THEN HttpResponse(500, ErrorBody(ExcStr(TypeError)))
    ELSE AloneLoop(ts, Tail(reps), start + MAX_BATCH_SIZE,
                   acc \o Elements(rep.json), addr)

AloneAt(b, reps, addr) ==
  IF b.kind = "invalid" THEN HttpResponse(500, ErrorBody(ExcStr(BadRequest)))
  ELSE IF b.kind # "object" THEN HttpResponse(500, ErrorBody(ExcStr(AttributeError)))
  ELSE AloneLoop(Normalize(InputOf(b)), reps, 0, <<>>, addr)

\* the response as a function of the body and the replies only
Alone(b, reps) == AloneAt(b, reps, CHOOSE addr \in Addresses : TRUE)

\* some call of the request failed in transport
TransportFailed(r) ==
  \E k \in 1..Len(replies[r]) : replies[r][k].kind = "transport"

PostFailed(r) ==
  /\ Done(r) /\ Normalized(r) /\ Resp(r).status = 500
  /\ \/ Len(replies[r]) = i[r] \div 10
     \/ /\ Len(replies[r]) = (i[r] \div 10) + 1
        /\ (Last(replies[r]).kind = "transport" \/ Last(replies[r]).status # 200)

\* C9 as stated: calls are issued in increasing batch order, each after the
\* previous one returned 200, at most one outstanding, none after a failure,
\* and a failure at batch k means exactly k+1 calls were issued.
C9_AnyFailure ==
  \A r \in Reqs :
    /\ Len(calls[r]) - Len(replies[r]) \in {0, 1}
    /\ (Len(calls[r]) - Len(replies[r]) = 1) <=> (pc[r] = "wait")
    /\ \A k \in 1..Len(calls[r]) : calls[r][k].start = 10 * (k - 1)
    /\ \A k \in 2..Len(calls[r]) :
         /\ replies[r][k - 1].kind = "http"
         /\ replies[r][k - 1].status = 200
    /\ \A k \in 1..Len(replies[r]) :
         (replies[r][k].kind = "transport" \/ replies[r][k].status # 200)
           => Len(calls[r]) = k
    /\ PostFailed(r) => Len(calls[r]) = (i[r] \div 10) + 1

\* ------------------------------------------------------------------------
\* C9: within a request the calls are issued in increasing batch order,
\* call k+1 only after call k returned with status 200: at most one call is
\* outstanding, and after the first reply that is a status other than 200 or
\* a transport failure no further call is issued, so such a failure at batch
\* k leaves exactly k+1 calls; when requests.post raises before sending
\* because batch k holds a non-finite number, no further call is issued
\* either and exactly k calls were issued.
C9_Sequential ==
  \A r \in Reqs :
    /\ Len(calls[r]) - Len(replies[r]) \in {0, 1}
    /\ (Len(calls[r]) - Len(replies[r]) = 1) <=> (pc[r] = "wait")
    /\ \A k \in 1..Len(calls[r]) : calls[r][k].start = 10 * (k - 1)
    /\ \A k \in 2..Len(calls[r]) :
         /\ replies[r][k - 1].kind = "http"
         /\ replies[r][k - 1].status = 200
    /\ \A k \in 1..Len(replies[r]) :
         (replies[r][k].kind = "transport" \/ replies[r][k].status # 200)
           => Len(calls[r]) = k
    /\ (PostFailed(r) /\ Len(replies[r]) = (i[r] \div 10) + 1)
         => Len(calls[r]) = (i[r] \div 10) + 1
    /\ (PostFailed(r) /\ Len(replies[r]) = i[r] \div 10) =>
         /\ Len(calls[r]) = i[r] \div 10
         /\ ~Encodable(Arr(BatchSlice(texts[r], i[r])))
    /\ (Done(r) /\ Normalized(r)) => Len(calls[r]) \in {i[r] \div 10, (i[r] \div 10) + 1}

\* the second of three batches answered 201: two calls were issued, the
\* third never
C9_Witness ==
  \E r \in Reqs :
    /\ Done(r)
    /\ Len(texts[r]) = 25
    /\ Len(replies[r]) = 2
    /\ Last(replies[r]).status = 201
    /\ Last(replies[r]).parses
    /\ Len(calls[r]) = 2

\* ------------------------------------------------------------------------
\* C10: a success response is never malformed: whenever the handler returns
\* status 200, data has exactly one entry per item of the normalised input;
\* a 200 reply with a number of vectors other than the number of texts
\* submitted ends the request with status 500.
C10_NoMalformedSuccess ==
  \A r \in Reqs :
    Done(r) =>
      /\ Resp(r).status = 200 => Len(Resp(r).body.data) = Len(texts[r])
      /\ (\E k \in 1..Len(replies[r]) :
            /\ replies[r][k].kind = "http" /\ replies[r][k].status = 200
            /\ replies[r][k].parses /\ replies[r][k].json.type = "array"
            /\ Len(replies[r][k].json.items) # Len(calls[r][k].payload))
           => Resp(r).status = 500

====
